---- MODULE Spec2Model ----
(***************************************************************************)
(* A model of the consul client wrapper (package consul):                  *)
(*   - client.Get / client.Put / client.WatchGet and the meta map they     *)
(*     share (the "IndexTracker"), as an interleaving of the watcher       *)
(*     goroutine, a caller task and the channel's consumer;                *)
(*   - client.LoadStruct with getTagOptions and normalizeValue.            *)
(* Go strings and []byte are sequences of runes. An ASCII rune is written  *)
(* as the string of that one character; any other rune is written by its  *)
(* code point, as in "U+00E9", so that the text of the model is ASCII.     *)
(***************************************************************************)
EXTENDS Integers, Sequences, FiniteSets, TLC

VARIABLES
    storeIdx,   \* the store's current index (X-Consul-Index)
    kvStore,    \* the store's entries: key -> [Value, ModifyIndex]
    meta,       \* client.meta: key -> *QueryMeta
    wpc,        \* the watcher goroutine's position
    lastIndex,  \* WatchGet: lastIndex
    wkv,        \* WatchGet: kv of the last fetch
    wmeta,      \* WatchGet: meta of the last fetch
    werr,       \* WatchGet: err of the last fetch (TRUE: err != nil)
    chClosed,   \* the delivery channel has been closed
    cready,     \* the consumer is blocked in <-ch
    firstRecv,  \* the first entry the consumer received
    lastRecv,   \* the last entry the consumer received
    sawClosed,  \* the consumer has observed the closed channel
    gpc,        \* the caller task's position inside client.Get
    gmeta,      \* client.Get: meta of its fetch
    gres,       \* client.Get: what the last call returned
    lastObs,    \* history: the response index of the latest successful observation
    fatal,      \* why the process died, "none" while it runs
    loadParent, \* LoadStruct: the parent path given
    faulty,     \* the keys whose fetch the store fails (LoadStruct's runs)
    recType,    \* LoadStruct: the fields of the record type loaded into
    vals,       \* LoadStruct: the fields assigned so far: field position -> value
    lookups,    \* LoadStruct: the calls of c.Get made, in order
    failedAt,   \* LoadStruct: the position of the field that failed
    loadErr,    \* LoadStruct: the error returned, "none" for nil
    lpc,        \* LoadStruct: its position: "ready", "loop", "get", "store", "set", "done"
    frames,     \* LoadStruct: the calls of recursiveLoadStruct in progress, innermost last
    lkv,        \* LoadStruct: kv of the c.Get in progress
    lgmeta,     \* LoadStruct: meta of the fetch inside the c.Get in progress
    seen,       \* history: what the store answered to each lookup, in order
    tagIn,      \* tag parsing: the consul tag of the field
    tagOut      \* tag parsing: the options and the error the tag gave

\* the variables of the LoadStruct runs and of the tag parser's runs
lvars == <<faulty, loadParent, recType, vals, lookups, failedAt, loadErr, lpc,
           frames, lkv, lgmeta, seen>>
tvars == <<tagIn, tagOut>>

\* the variables only the watch subsystem uses
wonly == <<wpc, lastIndex, wkv, wmeta, werr, chClosed, cready, firstRecv, lastRecv,
           sawClosed, gpc, gmeta, gres, lastObs, fatal>>

vars == <<storeIdx, kvStore, meta, wonly, lvars, tvars>>

----------------------------------------------------------------------------
(* Bounds *)

\* Puts stop when the store index reaches MaxIndex.
MaxIndex == 4

\* A record type has at most MaxFields fields (a nested record counts as one).
MaxFields == 2

\* The writes to the store while one LoadStruct runs.
MaxLoadPuts == 1

\* A tag given to getTagOptions is made of at most MaxPieces pieces.
MaxPieces == 7

----------------------------------------------------------------------------
(* Values *)

WatchKey == <<"k">>
Values == {<<"a">>, <<"b">>}

\* var lastIndex uint64 = 1
Sentinel == 1

\* a nil *KVPair, and a KVPair
NilKV == [nil |-> TRUE, Value |-> <<>>, ModifyIndex |-> 0]
KVPair(v, i) == [nil |-> FALSE, Value |-> v, ModifyIndex |-> i]

\* a nil *QueryMeta, and a QueryMeta
NilMeta == [nil |-> TRUE, LastIndex |-> 0]
QueryMeta(i) == [nil |-> FALSE, LastIndex |-> i]

\* m[k] = v on a Go map
MapSet(m, k, v) == [x \in (DOMAIN m) \cup {k} |-> IF x = k THEN v ELSE m[x]]
EmptyMap == [x \in {} |-> NilMeta]

\* "nothing received yet"
NoRecv == [got |-> FALSE, kv |-> NilKV, index |-> 0]
Recv(kv, i) == [got |-> TRUE, kv |-> kv, index |-> i]

----------------------------------------------------------------------------
(* The store (consulapi.KV) *)

\* kv.Get without error: the entry (nil when absent) and the response index.
KVGet(key) ==
    IF key \in DOMAIN kvStore
    THEN [kv |-> kvStore[key], meta |-> QueryMeta(kvStore[key].ModifyIndex), err |-> FALSE]
    ELSE [kv |-> NilKV, meta |-> QueryMeta(storeIdx), err |-> FALSE]

\* kv.Get failing: nil, nil, err
KVGetErr == [kv |-> NilKV, meta |-> NilMeta, err |-> TRUE]

\* kv.Put: the write gets the next index.
KVPut(key, v) ==
    /\ storeIdx' = storeIdx + 1
    /\ kvStore' = MapSet(kvStore, key, KVPair(v, storeIdx + 1))

Running == fatal = "none"

----------------------------------------------------------------------------
(* Strings *)

s_name == <<"n", "a", "m", "e">>
s_default == <<"d", "e", "f", "a", "u", "l", "t">>

UpperLetters == <<"A", "B", "C", "D", "E", "F", "G", "H", "I", "J", "K", "L", "M",
                  "N", "O", "P", "Q", "R", "S", "T", "U", "V", "W", "X", "Y", "Z">>
LowerLetters == <<"a", "b", "c", "d", "e", "f", "g", "h", "i", "j", "k", "l", "m",
                  "n", "o", "p", "q", "r", "s", "t", "u", "v", "w", "x", "y", "z">>
Digits == <<"0", "1", "2", "3", "4", "5", "6", "7", "8", "9">>

\* strings.ToLower, on the runes of field names, which are ASCII here
ToLowerChar(c) ==
    IF \E i \in 1..Len(UpperLetters) : UpperLetters[i] = c
    THEN LowerLetters[CHOOSE i \in 1..Len(UpperLetters) : UpperLetters[i] = c]
    ELSE c
ToLower(s) == [i \in 1..Len(s) |-> ToLowerChar(s[i])]

\* strings.Split(s, sep) for a one-character sep: one part more than there are
\* separators, so Split("", ":") is [""].
RECURSIVE SplitFrom(_, _, _, _, _)
SplitFrom(s, sep, i, parts, cur) ==
    IF i > Len(s) THEN Append(parts, cur)
    ELSE IF s[i] = sep THEN SplitFrom(s, sep, i + 1, Append(parts, cur), <<>>)
    ELSE SplitFrom(s, sep, i + 1, parts, Append(cur, s[i]))
Split(s, sep) == SplitFrom(s, sep, 1, <<>>, <<>>)

\* strings.TrimSpace trims the runes of unicode.IsSpace: '\t', '\n', '\v', '\f', '\r',
\* ' ', U+0085 (NEL), U+00A0 (NBSP), and the other code points of the White_Space
\* property: U+1680, U+2000..U+200A, U+2028, U+2029, U+202F, U+205F, U+3000.
WhiteSpace ==
    { " ", "\t", "\n", "", "\f", "\r",
      "U+0085", "U+00A0", "U+1680",
      "U+2000", "U+2001", "U+2002", "U+2003", "U+2004", "U+2005",
      "U+2006", "U+2007", "U+2008", "U+2009", "U+200A",
      "U+2028", "U+2029", "U+202F", "U+205F", "U+3000" }
IsSpace(c) == c \in WhiteSpace
RECURSIVE TrimLeft(_)
TrimLeft(s) == IF s # <<>> /\ IsSpace(Head(s)) THEN TrimLeft(Tail(s)) ELSE s
RECURSIVE TrimRight(_)
TrimRight(s) ==
    IF s # <<>> /\ IsSpace(s[Len(s)]) THEN TrimRight(SubSeq(s, 1, Len(s) - 1)) ELSE s
TrimSpace(s) == TrimRight(TrimLeft(s))

IsDigit(c) == \E i \in 1..Len(Digits) : Digits[i] = c
DigitVal(c) == (CHOOSE i \in 1..Len(Digits) : Digits[i] = c) - 1

----------------------------------------------------------------------------
(* getTagOptions *)

\* var allowOptions = map[string]string{"name": "", "default": ""}
allowOptions == (s_name :> <<>>) @@ (s_default :> <<>>)

\* Mutant of allowOption: only "name" is recognised.
allowOptionNameOnly(name) == name = s_name

allowOption(name) == name \in DOMAIN allowOptions

NoOptions == [x \in {} |-> <<>>]

\* for i := 0; i < len(parts); i += 2 { ... res[name] = value }
RECURSIVE TagPairs(_, _, _)
TagPairs(parts, i, res) ==
    IF i > Len(parts) THEN res
    ELSE IF ~allowOption(parts[i]) THEN TagPairs(parts, i + 2, res)
    ELSE TagPairs(parts, i + 2, MapSet(res, parts[i], parts[i + 1]))

getTagOptions(v) ==
    LET parts == Split(v, ":")
    IN IF Len(parts) % 2 # 0
       THEN [err |-> "ErrInvalidTagOptions", res |-> NoOptions]
       ELSE [err |-> "none", res |-> TagPairs(parts, 1, NoOptions)]

NoTagResult == [err |-> "notcalled", res |-> NoOptions]

----------------------------------------------------------------------------
(* normalizeValue *)

\* The values a field is set to. A float is the decimal it was parsed from,
\* n * 10^e with n not a multiple of 10 unless e = 0: the decimals the model
\* parses have few digits, and distinct ones are distinct float32 and float64.
StringValue(s) == [k |-> "string", s |-> s, n |-> 0, e |-> 0]
IntValue(n) == [k |-> "int", s |-> <<>>, n |-> n, e |-> 0]
RECURSIVE FloatValue(_, _, _)
FloatValue(k, n, e) ==
    IF n = 0 THEN [k |-> k, s |-> <<>>, n |-> 0, e |-> 0]
    ELSE IF e < 0 /\ n % 10 = 0 THEN FloatValue(k, n \div 10, e + 1)
    ELSE [k |-> k, s |-> <<>>, n |-> n, e |-> e]
NoValue == [k |-> "none", s |-> <<>>, n |-> 0, e |-> 0]

RECURSIVE DigitsVal(_, _)
DigitsVal(s, acc) == IF s = <<>> THEN acc ELSE DigitsVal(Tail(s), 10 * acc + DigitVal(Head(s)))
AllDigits(s) == \A i \in 1..Len(s) : IsDigit(s[i])
HasSign(s) == s # <<>> /\ Head(s) \in {"+", "-"}
Unsigned(s) == IF HasSign(s) THEN Tail(s) ELSE s
SignOf(s) == IF s # <<>> /\ Head(s) = "-" THEN -1 ELSE 1

\* strconv.ParseInt(s, 10, 64): an optional sign, then one or more digits. The
\* model's inputs have few digits, so the value is always in range.
ParseInt(s) ==
    IF Unsigned(s) = <<>> \/ ~AllDigits(Unsigned(s))
    THEN [err |-> "syntax", n |-> 0]
    ELSE [err |-> "none", n |-> SignOf(s) * DigitsVal(Unsigned(s), 0)]

\* strconv.ParseFloat(s, bitSize) on inputs without an exponent, a base prefix,
\* an underscore, "inf" or "nan": an optional sign, then digits with at most one
\* ".", at least one digit in all.
ParseFloat(s) ==
    LET u == Unsigned(s)
        dots == {i \in 1..Len(u) : u[i] = "."}
        digs == SelectSeq(u, IsDigit)
    IN IF digs = <<>> \/ Cardinality(dots) > 1 \/ Len(digs) + Cardinality(dots) # Len(u)
       THEN [err |-> "syntax", n |-> 0, e |-> 0]
       ELSE [err |-> "none", n |-> SignOf(s) * DigitsVal(digs, 0),
             e |-> IF dots = {} THEN 0 ELSE (CHOOSE i \in dots : TRUE) - Len(u)]

normalizeValue(kind, value) ==
    CASE kind = "string" -> [err |-> "none", v |-> StringValue(value)]
      [] kind \in {"float32", "float64"} ->
            LET r == ParseFloat(TrimSpace(value))
            IN IF r.err # "none" THEN [err |-> r.err, v |-> NoValue]
               ELSE [err |-> "none", v |-> FloatValue(kind, r.n, r.e)]
      [] kind = "int" ->
            LET r == ParseInt(TrimSpace(value))
            IN IF r.err # "none" THEN [err |-> r.err, v |-> NoValue]
               ELSE [err |-> "none", v |-> IntValue(r.n)]
      [] OTHER -> [err |-> "unsupported", v |-> NoValue]

----------------------------------------------------------------------------
(* client.LoadStruct *)

\* tag := field.Tag.Get("consul"); if tag != "" { tagOptions, err = c.getTagOptions(tag) }
FieldTagOptions(field) ==
    IF field.Tag # <<>> THEN getTagOptions(field.Tag)
    ELSE [err |-> "none", res |-> NoOptions]

\* Mutant of KVName: the name override is ignored.
KVNameNoOverride(field, tagOptions) == ToLower(field.Name)

\* if name, ok := tagOptions["name"]; ok { kvName = name } else { ToLower(field.Name) }
KVName(field, tagOptions) ==
    IF s_name \in DOMAIN tagOptions THEN tagOptions[s_name] ELSE ToLower(field.Name)

\* path := fmt.Sprintf("%s/%s", parent, kvName)
Path(parent, kvName) == parent \o <<"/">> \o kvName

\* Mutant of FieldValue: the default is used whether or not the key exists.
FieldValueDefaultFirst(kv, tagOptions) ==
    IF s_default \in DOMAIN tagOptions THEN tagOptions[s_default]
    ELSE IF kv.nil THEN <<>> ELSE kv.Value

\* var fieldValue []byte; the default when kv == nil and there is one, else kv.Value
FieldValue(kv, tagOptions) ==
    IF kv.nil
    THEN IF s_default \in DOMAIN tagOptions THEN tagOptions[s_default] ELSE <<>>
    ELSE kv.Value

\* Mutant of IsFetchFailure: no error of c.Get ends the load.
IsFetchFailureNever(err) == FALSE

\* if err != nil { if _, ok := err.(ErrKVNotFound); !ok { return err } }
IsFetchFailure(err) == err \notin {"none", "notfound"}

\* One call of recursiveLoadStruct in progress: its parent path, the fields of
\* val, the position of val in the record loaded into, and the loop's i (from 1).
Frame(parent, fields, prefix, i) ==
    [parent |-> parent, fields |-> fields, prefix |-> prefix, i |-> i]

\* The innermost call, and the field its loop is at.
Top == frames[Len(frames)]
CurField == Top.fields[Top.i]
CurAt == Append(Top.prefix, Top.i)
CurTagged == FieldTagOptions(CurField)
CurPath == Path(Top.parent, KVName(CurField, CurTagged.res))

\* i++ in the innermost call
Advance(fs) == [fs EXCEPT ![Len(fs)].i = @ + 1]

\* return err, through every call in progress
Return(err, at) ==
    /\ lpc' = "done"
    /\ loadErr' = err
    /\ failedAt' = at
    /\ frames' = <<>>

----------------------------------------------------------------------------
(* client.Put *)

Put ==
    /\ Running
    /\ storeIdx < MaxIndex
    /\ \E v \in Values : KVPut(WatchKey, v)
    /\ UNCHANGED <<meta, wpc, lastIndex, wkv, wmeta, werr, chClosed, cready,
                   firstRecv, lastRecv, sawClosed, gpc, gmeta, gres, lastObs, fatal,
                   lvars, tvars>>

----------------------------------------------------------------------------
(* client.Get, by a caller task: the fetch, then the write of c.meta[key] *)

GetFound ==
    /\ Running
    /\ gpc = "idle"
    /\ ~KVGet(WatchKey).kv.nil
    /\ gmeta' = KVGet(WatchKey).meta
    /\ lastObs' = KVGet(WatchKey).meta.LastIndex
    /\ gpc' = "store"
    /\ UNCHANGED <<storeIdx, kvStore, meta, wpc, lastIndex, wkv, wmeta, werr,
                   chClosed, cready, firstRecv, lastRecv, sawClosed, gres, fatal,
                   lvars, tvars>>

GetNotFound ==
    /\ Running
    /\ gpc = "idle"
    /\ KVGet(WatchKey).kv.nil
    /\ gres' = "notfound"
    /\ UNCHANGED <<storeIdx, kvStore, meta, wpc, lastIndex, wkv, wmeta, werr,
                   chClosed, cready, firstRecv, lastRecv, sawClosed, gpc, gmeta, lastObs, fatal,
                   lvars, tvars>>

GetErr ==
    /\ Running
    /\ gpc = "idle"
    /\ gres' = "err"
    /\ UNCHANGED <<storeIdx, kvStore, meta, wpc, lastIndex, wkv, wmeta, werr,
                   chClosed, cready, firstRecv, lastRecv, sawClosed, gpc, gmeta, lastObs, fatal,
                   lvars, tvars>>

GetStore ==
    /\ Running
    /\ gpc = "store"
    /\ meta' = MapSet(meta, WatchKey, gmeta)
    /\ gpc' = "idle"
    /\ gres' = "ok"
    /\ UNCHANGED <<storeIdx, kvStore, wpc, lastIndex, wkv, wmeta, werr,
                   chClosed, cready, firstRecv, lastRecv, sawClosed, gmeta, lastObs, fatal,
                   lvars, tvars>>

----------------------------------------------------------------------------
(* client.WatchGet *)

\* WatchGet itself: make the channel, start the goroutine.
WatchGet ==
    /\ Running
    /\ wpc = "idle"
    /\ wpc' = "read"
    /\ UNCHANGED <<storeIdx, kvStore, meta, lastIndex, wkv, wmeta, werr, chClosed,
                   cready, firstRecv, lastRecv, sawClosed, gpc, gmeta, gres, lastObs, fatal,
                   lvars, tvars>>

\* lastIndex := 1; if meta, ok := c.meta[key]; ok { lastIndex = meta.LastIndex }
WaitIndex ==
    IF WatchKey \in DOMAIN meta THEN meta[WatchKey].LastIndex ELSE Sentinel

WatchRead ==
    /\ Running
    /\ wpc = "read"
    /\ IF WatchKey \in DOMAIN meta /\ meta[WatchKey].nil
       THEN /\ fatal' = "nilDereference"
            /\ UNCHANGED <<lastIndex, wpc>>
       ELSE /\ lastIndex' = WaitIndex
            /\ wpc' = "fetch"
            /\ UNCHANGED fatal
    /\ UNCHANGED <<storeIdx, kvStore, meta, wkv, wmeta, werr, chClosed,
                   cready, firstRecv, lastRecv, sawClosed, gpc, gmeta, gres, lastObs,
                   lvars, tvars>>

\* if lastIndex == 1 && kv == nil { continue }
SkipDelivery(li, kv) == li = Sentinel /\ kv.nil

\* What the loop does with a fetch's result, up to the write of c.meta[key]:
\* continue, or close(ch) on an error, and go on.
AfterFetch(resp) ==
    /\ wkv' = resp.kv
    /\ wmeta' = resp.meta
    /\ werr' = resp.err
    /\ IF SkipDelivery(lastIndex, resp.kv)
       THEN wpc' = "read" /\ UNCHANGED chClosed
       ELSE wpc' = "store" /\ chClosed' = (chClosed \/ resp.err)
    /\ lastObs' = IF resp.err \/ SkipDelivery(lastIndex, resp.kv)
                  THEN lastObs ELSE resp.meta.LastIndex
    /\ UNCHANGED <<storeIdx, kvStore, meta, lastIndex, cready, firstRecv,
                   lastRecv, sawClosed, gpc, gmeta, gres, fatal,
                   lvars, tvars>>

\* The blocking query returns because the index has passed the wait index.
WatchFetchChanged ==
    /\ Running
    /\ wpc = "fetch"
    /\ KVGet(WatchKey).meta.LastIndex > lastIndex
    /\ AfterFetch(KVGet(WatchKey))

\* The blocking query returns at the store's wait timeout, nothing having changed.
WatchFetchTimeout ==
    /\ Running
    /\ wpc = "fetch"
    /\ KVGet(WatchKey).meta.LastIndex <= lastIndex
    /\ AfterFetch(KVGet(WatchKey))

\* The blocking query fails.
WatchFetchErr ==
    /\ Running
    /\ wpc = "fetch"
    /\ AfterFetch(KVGetErr)

\* c.meta[key] = meta
WatchStore ==
    /\ Running
    /\ wpc = "store"
    /\ meta' = MapSet(meta, WatchKey, wmeta)
    /\ wpc' = "send"
    /\ UNCHANGED <<storeIdx, kvStore, lastIndex, wkv, wmeta, werr, chClosed,
                   cready, firstRecv, lastRecv, sawClosed, gpc, gmeta, gres, lastObs, fatal,
                   lvars, tvars>>

\* Mutant of DeliveredIndex: the index is read back from the shared tracker.
DeliveredIndexFromTracker == meta[WatchKey].LastIndex

\* The index observed with the entry the loop sends: that of its own fetch.
DeliveredIndex == wmeta.LastIndex

\* Mutant of SendReady: a send that does not wait for the receiver.
SendReadyAlways == TRUE

\* The send can complete: the channel is unbuffered, so a receiver must wait on it.
SendReady == cready

\* ch <- kv, received by the consumer
WatchSend ==
    /\ Running
    /\ wpc = "send"
    /\ ~chClosed
    /\ SendReady
    /\ lastRecv' = Recv(wkv, DeliveredIndex)
    /\ firstRecv' = IF firstRecv.got THEN firstRecv ELSE Recv(wkv, DeliveredIndex)
    /\ cready' = FALSE
    /\ wpc' = "read"
    /\ UNCHANGED <<storeIdx, kvStore, meta, lastIndex, wkv, wmeta, werr, chClosed,
                   sawClosed, gpc, gmeta, gres, lastObs, fatal,
                   lvars, tvars>>

\* ch <- kv on the closed channel: panic: send on closed channel
WatchSendClosed ==
    /\ Running
    /\ wpc = "send"
    /\ chClosed
    /\ fatal' = "sendOnClosed"
    /\ UNCHANGED <<storeIdx, kvStore, meta, wpc, lastIndex, wkv, wmeta, werr, chClosed,
                   cready, firstRecv, lastRecv, sawClosed, gpc, gmeta, gres, lastObs,
                   lvars, tvars>>

\* c.meta is a plain map: the write of client.Get (called by a task, or by
\* LoadStruct) running together with the goroutine's read or write is a data race,
\* which the runtime may detect and abort on ("fatal error: concurrent map read and
\* map write" / "concurrent map writes").
MapRace ==
    /\ Running
    /\ gpc = "store" \/ lpc = "store"
    /\ wpc \in {"read", "store"}
    /\ fatal' = "concurrentMap"
    /\ UNCHANGED <<storeIdx, kvStore, meta, wpc, lastIndex, wkv, wmeta, werr, chClosed,
                   cready, firstRecv, lastRecv, sawClosed, gpc, gmeta, gres, lastObs,
                   lvars, tvars>>

----------------------------------------------------------------------------
(* The consumer of the channel *)

\* kv := <-ch : the consumer comes to wait on the channel
Receive ==
    /\ Running
    /\ ~cready
    /\ ~chClosed
    /\ cready' = TRUE
    /\ UNCHANGED <<storeIdx, kvStore, meta, wpc, lastIndex, wkv, wmeta, werr, chClosed,
                   firstRecv, lastRecv, sawClosed, gpc, gmeta, gres, lastObs, fatal,
                   lvars, tvars>>

\* <-ch on the closed channel returns at once
ReceiveClosed ==
    /\ Running
    /\ chClosed
    /\ ~sawClosed
    /\ sawClosed' = TRUE
    /\ cready' = FALSE
    /\ UNCHANGED <<storeIdx, kvStore, meta, wpc, lastIndex, wkv, wmeta, werr, chClosed,
                   firstRecv, lastRecv, gpc, gmeta, gres, lastObs, fatal,
                   lvars, tvars>>

----------------------------------------------------------------------------
(* The specification of the watch subsystem *)

\* NewClientWithConsulClient: meta: make(map[string]*QueryMeta)
Init ==
    /\ storeIdx = 1
    /\ kvStore = [x \in {} |-> NilKV]
    /\ meta = EmptyMap
    /\ wpc = "idle"
    /\ lastIndex = 0
    /\ wkv = NilKV
    /\ wmeta = NilMeta
    /\ werr = FALSE
    /\ chClosed = FALSE
    /\ cready = FALSE
    /\ firstRecv = NoRecv
    /\ lastRecv = NoRecv
    /\ sawClosed = FALSE
    /\ gpc = "idle"
    /\ gmeta = NilMeta
    /\ gres = "none"
    /\ lastObs = 0
    /\ fatal = "none"
    /\ faulty = {}
    /\ loadParent = <<>>
    /\ recType = <<>>
    /\ vals = <<>>
    /\ lookups = <<>>
    /\ failedAt = <<>>
    /\ loadErr = "none"
    /\ lpc = "idle"
    /\ frames = <<>>
    /\ lkv = NilKV
    /\ lgmeta = NilMeta
    /\ seen = <<>>
    /\ tagIn = <<>>
    /\ tagOut = NoTagResult

Next ==
    \/ Put
    \/ GetFound
    \/ GetNotFound
    \/ GetErr
    \/ GetStore
    \/ WatchGet
    \/ WatchRead
    \/ WatchFetchChanged
    \/ WatchFetchTimeout
    \/ WatchFetchErr
    \/ WatchStore
    \/ WatchSend
    \/ WatchSendClosed
    \/ MapRace
    \/ Receive
    \/ ReceiveClosed

Spec == Init /\ [][Next]_vars

\* The watch already started, on a key that does not exist and has no recorded index.
InitWatching ==
    /\ storeIdx = 1
    /\ kvStore = [x \in {} |-> NilKV]
    /\ meta = EmptyMap
    /\ wpc = "read"
    /\ lastIndex = 0
    /\ wkv = NilKV
    /\ wmeta = NilMeta
    /\ werr = FALSE
    /\ chClosed = FALSE
    /\ cready = FALSE
    /\ firstRecv = NoRecv
    /\ lastRecv = NoRecv
    /\ sawClosed = FALSE
    /\ gpc = "idle"
    /\ gmeta = NilMeta
    /\ gres = "none"
    /\ lastObs = 0
    /\ fatal = "none"
    /\ faulty = {}
    /\ loadParent = <<>>
    /\ recType = <<>>
    /\ vals = <<>>
    /\ lookups = <<>>
    /\ failedAt = <<>>
    /\ loadErr = "none"
    /\ lpc = "idle"
    /\ frames = <<>>
    /\ lkv = NilKV
    /\ lgmeta = NilMeta
    /\ seen = <<>>
    /\ tagIn = <<>>
    /\ tagOut = NoTagResult

\* The same system with a store that never fails.
NextNoErr ==
    \/ Put
    \/ GetFound
    \/ GetNotFound
    \/ GetStore
    \/ WatchRead
    \/ WatchFetchChanged
    \/ WatchFetchTimeout
    \/ WatchStore
    \/ WatchSend
    \/ MapRace
    \/ Receive

\* The scheduler runs the goroutine when it can run, the store answers every
\* blocking query (on a change or at its wait timeout), and the consumer keeps
\* receiving. Nothing forces further calls of Put or Get.
FairSpec ==
    /\ InitWatching
    /\ [][NextNoErr]_vars
    /\ WF_vars(WatchRead)
    /\ WF_vars(WatchFetchChanged)
    /\ WF_vars(WatchFetchTimeout)
    /\ WF_vars(WatchStore)
    /\ WF_vars(WatchSend)
    /\ WF_vars(Receive)
    /\ WF_vars(GetStore)

----------------------------------------------------------------------------
(* The runs of LoadStruct *)

s_service == <<"s", "e", "r", "v", "i", "c", "e">>
Parents == {s_service}

Field(name, tag, kind, fields) == [Name |-> name, Tag |-> tag, Kind |-> kind, Fields |-> fields]

\* struct { Name string; Delay float32 `consul:"name:d"` }
NestedFields ==
    << Field(<<"N", "a", "m", "e">>, <<>>, "string", <<>>),
       Field(<<"D", "e", "l", "a", "y">>, <<"n", "a", "m", "e", ":", "d">>, "float32", <<>>) >>

\* The declaration record types are cut from: a kind normalizeValue does not
\* support, a nested record, a field with a default, a time.Time, a tag with an
\* odd number of tokens, a field with a name and a default, and a plain field.
FieldPool ==
    << Field(<<"F", "l", "a", "g">>, <<>>, "bool", <<>>),
       Field(<<"N", "e", "s", "t", "e", "d">>, <<>>, "struct", NestedFields),
       Field(<<"S", "i", "z", "e">>,
             <<"d", "e", "f", "a", "u", "l", "t", ":", "1", "0", "0">>, "int", <<>>),
       Field(<<"T", "i", "m", "e">>, <<>>, "time", <<>>),
       Field(<<"O", "f", "f", "s", "e", "t">>, <<"d", "e", "f", "a", "u", "l", "t">>, "int", <<>>),
       Field(<<"R", "a", "t", "e">>,
             <<"n", "a", "m", "e", ":", "r", ":", "d", "e", "f", "a", "u", "l", "t", ":", "2", ".", "5">>,
             "float64", <<>>),
       Field(<<"N", "a", "m", "e">>, <<>>, "string", <<>>) >>

\* The fields of the declaration at the positions I, in declaration order.
RECURSIVE Pick(_, _)
Pick(I, k) ==
    IF k > Len(FieldPool) THEN <<>>
    ELSE (IF k \in I THEN <<FieldPool[k]>> ELSE <<>>) \o Pick(I, k + 1)

\* Record types: up to MaxFields fields of the declaration.
RecordTypes ==
    { Pick(I, 1) : I \in {J \in SUBSET (1..Len(FieldPool)) : Cardinality(J) <= MaxFields} }

\* What the store holds at a path when LoadStruct is called: nothing, a value, or
\* a failing fetch.
StoreValues == { <<" ", "7", "\f">>, <<"x">> }
Responses ==
    { [t |-> "absent", v |-> <<>>], [t |-> "error", v |-> <<>>] }
        \cup { [t |-> "value", v |-> v] : v \in StoreValues }

\* What is written to the store while LoadStruct runs.
PutValues == { <<"7">>, <<"x">> }

\* The tokens of a tag, by the positions of its colons.
Colons(tag) == {i \in 1..Len(tag) : tag[i] = ":"}
NTokens(tag) == Cardinality(Colons(tag)) + 1
ColonAt(tag, j) ==
    IF j = 0 THEN 0
    ELSE IF j = NTokens(tag) THEN Len(tag) + 1
    ELSE CHOOSE p \in Colons(tag) : Cardinality({q \in Colons(tag) : q <= p}) = j
Token(tag, j) == SubSeq(tag, ColonAt(tag, j - 1) + 1, ColonAt(tag, j) - 1)

\* The option key of a tag: the value after the last key token equal to key.
KeyTokens(tag, key) == {j \in 1..NTokens(tag) : j % 2 = 1 /\ Token(tag, j) = key}
HasOption(tag, key) == NTokens(tag) % 2 = 0 /\ KeyTokens(tag, key) # {}
OptionOf(tag, key) ==
    Token(tag, 1 + CHOOSE j \in KeyTokens(tag, key) : \A k \in KeyTokens(tag, key) : k <= j)

\* The path segment of a field: its name option, else its name in lower case.
Segment(field) ==
    IF HasOption(field.Tag, s_name) THEN OptionOf(field.Tag, s_name) ELSE ToLower(field.Name)

\* The scalar leaves of a record type, depth first in declaration order, each
\* with its position and its path under parent.
RECURSIVE ExpectedLeaves(_, _, _, _)
ExpectedLeaves(parent, fields, prefix, i) ==
    IF i > Len(fields) THEN <<>>
    ELSE LET f == fields[i]
             p == parent \o <<"/">> \o Segment(f)
             rest == ExpectedLeaves(parent, fields, prefix, i + 1)
         IN IF f.Kind = "time" THEN rest
            ELSE IF f.Kind = "struct"
                 THEN ExpectedLeaves(p, f.Fields, Append(prefix, i), 1) \o rest
            ELSE <<[path |-> p, at |-> Append(prefix, i)]>> \o rest

\* The positions of the fields that are not scalar leaves.
RECURSIVE SkippedPositions(_, _, _)
SkippedPositions(fields, prefix, i) ==
    IF i > Len(fields) THEN {}
    ELSE (IF fields[i].Kind \in {"time", "struct"} THEN {Append(prefix, i)} ELSE {})
         \cup (IF fields[i].Kind = "struct"
               THEN SkippedPositions(fields[i].Fields, Append(prefix, i), 1) ELSE {})
         \cup SkippedPositions(fields, prefix, i + 1)

\* The field at a position of a record type.
RECURSIVE FieldAt(_, _)
FieldAt(fields, at) ==
    IF Len(at) = 1 THEN fields[at[1]] ELSE FieldAt(fields[at[1]].Fields, Tail(at))

\* Position a comes before position b in resolution order.
RECURSIVE Before(_, _)
Before(a, b) ==
    IF b = <<>> THEN FALSE
    ELSE IF a = <<>> THEN TRUE
    ELSE IF a[1] # b[1] THEN a[1] < b[1]
    ELSE Before(Tail(a), Tail(b))

SeqRange(s) == {s[i] : i \in 1..Len(s)}

\* A client with a watch running (its goroutine about to read c.meta), a store
\* holding some of the record's keys, and LoadStruct about to be called.
InitLoad ==
    /\ wpc = "read"
    /\ lastIndex = 0
    /\ wkv = NilKV
    /\ wmeta = NilMeta
    /\ werr = FALSE
    /\ chClosed = FALSE
    /\ cready = FALSE
    /\ firstRecv = NoRecv
    /\ lastRecv = NoRecv
    /\ sawClosed = FALSE
    /\ gpc = "idle"
    /\ gmeta = NilMeta
    /\ gres = "none"
    /\ lastObs = 0
    /\ fatal = "none"
    /\ tagIn = <<>>
    /\ tagOut = NoTagResult
    /\ meta = EmptyMap
    /\ storeIdx = MaxIndex - MaxLoadPuts
    /\ loadParent \in Parents
    /\ recType \in RecordTypes
    /\ \E resp \in [{l.path : l \in SeqRange(ExpectedLeaves(loadParent, recType, <<>>, 1))}
                        -> Responses] :
          /\ faulty = {p \in DOMAIN resp : resp[p].t = "error"}
          /\ kvStore = [p \in {q \in DOMAIN resp : resp[q].t = "value"}
                            |-> KVPair(resp[p].v, storeIdx)]
    /\ vals = <<>>
    /\ lookups = <<>>
    /\ failedAt = <<>>
    /\ loadErr = "none"
    /\ lpc = "ready"
    /\ frames = <<>>
    /\ lkv = NilKV
    /\ lgmeta = NilMeta
    /\ seen = <<>>

\* func (c *client) LoadStruct(parent string, i interface{}) error: the call of
\* recursiveLoadStruct(parent, reflect.ValueOf(i).Elem())
LoadStruct ==
    /\ Running
    /\ lpc = "ready"
    /\ frames' = <<Frame(loadParent, recType, <<>>, 1)>>
    /\ lpc' = "loop"
    /\ UNCHANGED <<storeIdx, kvStore, meta, wonly, tvars, faulty, loadParent, recType,
                   vals, lookups, failedAt, loadErr, lkv, lgmeta, seen>>

\* One turn of the loop of the innermost recursiveLoadStruct, up to its call of
\* c.Get: return nil after the last field, return the tag's error, skip a
\* time.Time, enter a nested record, or call c.Get(path) for a scalar.
recursiveLoadStruct ==
    /\ Running
    /\ lpc = "loop"
    /\ IF Top.i > Len(Top.fields)
       THEN IF Len(frames) = 1
            THEN /\ Return("none", <<>>)
                 /\ UNCHANGED lookups
            ELSE /\ frames' = Advance(SubSeq(frames, 1, Len(frames) - 1))
                 /\ UNCHANGED <<lpc, loadErr, failedAt, lookups>>
       ELSE IF CurTagged.err # "none"
            THEN /\ Return(CurTagged.err, CurAt)
                 /\ UNCHANGED lookups
       ELSE IF CurField.Kind = "time"
            THEN /\ frames' = Advance(frames)
                 /\ UNCHANGED <<lpc, loadErr, failedAt, lookups>>
       ELSE IF CurField.Kind = "struct"
            THEN /\ frames' = Append(frames, Frame(CurPath, CurField.Fields, CurAt, 1))
                 /\ UNCHANGED <<lpc, loadErr, failedAt, lookups>>
       ELSE /\ lpc' = "get"
            /\ lookups' = Append(lookups, [path |-> CurPath, at |-> CurAt])
            /\ UNCHANGED <<frames, loadErr, failedAt>>
    /\ UNCHANGED <<storeIdx, kvStore, meta, wonly, tvars, faulty, loadParent, recType,
                   vals, lkv, lgmeta, seen>>

\* c.Get(path): c.kv.Get fails; Get returns nil, nil, err and the load returns it
LoadGetErr ==
    /\ Running
    /\ lpc = "get"
    /\ CurPath \in faulty
    /\ seen' = Append(seen, [kv |-> NilKV, err |-> "store"])
    /\ lkv' = NilKV
    /\ IF IsFetchFailure("store")
       THEN Return("store", CurAt)
       ELSE /\ lpc' = "set"
            /\ UNCHANGED <<frames, loadErr, failedAt>>
    /\ UNCHANGED <<storeIdx, kvStore, meta, wonly, tvars, faulty, loadParent, recType,
                   vals, lookups, lgmeta>>

\* c.Get(path): the key does not exist; Get returns nil, nil, ErrKVNotFound and
\* leaves c.meta alone
LoadGetNotFound ==
    /\ Running
    /\ lpc = "get"
    /\ CurPath \notin faulty
    /\ KVGet(CurPath).kv.nil
    /\ seen' = Append(seen, [kv |-> NilKV, err |-> "notfound"])
    /\ lkv' = NilKV
    /\ IF IsFetchFailure("notfound")
       THEN Return("notfound", CurAt)
       ELSE /\ lpc' = "set"
            /\ UNCHANGED <<frames, loadErr, failedAt>>
    /\ UNCHANGED <<storeIdx, kvStore, meta, wonly, tvars, faulty, loadParent, recType,
                   vals, lookups, lgmeta>>

\* c.Get(path): c.kv.Get returns the entry and the response's meta
LoadGetFound ==
    /\ Running
    /\ lpc = "get"
    /\ CurPath \notin faulty
    /\ ~KVGet(CurPath).kv.nil
    /\ seen' = Append(seen, [kv |-> KVGet(CurPath).kv, err |-> "none"])
    /\ lkv' = KVGet(CurPath).kv
    /\ lgmeta' = KVGet(CurPath).meta
    /\ lpc' = "store"
    /\ UNCHANGED <<storeIdx, kvStore, meta, wonly, tvars, faulty, loadParent, recType,
                   vals, lookups, failedAt, loadErr, frames>>

\* c.Get(path): c.meta[key] = meta; return kv, meta, nil
LoadGetStore ==
    /\ Running
    /\ lpc = "store"
    /\ meta' = MapSet(meta, CurPath, lgmeta)
    /\ lpc' = "set"
    /\ UNCHANGED <<storeIdx, kvStore, wonly, tvars, faulty, loadParent, recType,
                   vals, lookups, failedAt, loadErr, frames, lkv, lgmeta, seen>>

\* The payload, normalizeValue and value.Set of the field c.Get returned for.
LoadSet ==
    /\ Running
    /\ lpc = "set"
    /\ LET v == normalizeValue(CurField.Kind, FieldValue(lkv, CurTagged.res))
       IN IF v.err # "none"
          THEN /\ Return(v.err, CurAt)
               /\ UNCHANGED vals
          ELSE /\ vals' = MapSet(vals, CurAt, v.v)
               /\ frames' = Advance(frames)
               /\ lpc' = "loop"
               /\ UNCHANGED <<loadErr, failedAt>>
    /\ UNCHANGED <<storeIdx, kvStore, meta, wonly, tvars, faulty, loadParent, recType,
                   lookups, lkv, lgmeta, seen>>

\* client.Put on one of the record's keys while LoadStruct runs.
LoadPut ==
    /\ Running
    /\ lpc \in {"loop", "get", "store", "set"}
    /\ storeIdx < MaxIndex
    /\ \E l \in SeqRange(ExpectedLeaves(loadParent, recType, <<>>, 1)), v \in PutValues :
          KVPut(l.path, v)
    /\ UNCHANGED <<meta, wonly, lvars, tvars>>

NextLoad ==
    \/ LoadStruct
    \/ recursiveLoadStruct
    \/ LoadGetErr
    \/ LoadGetNotFound
    \/ LoadGetFound
    \/ LoadGetStore
    \/ LoadSet
    \/ LoadPut
    \/ MapRace

LoadSpec == InitLoad /\ [][NextLoad]_vars

----------------------------------------------------------------------------
(* The runs of the tag parsing of a field *)

\* Tags: up to MaxPieces pieces, each a colon, "name", "default" or "x".
TagPieces == { <<":">>, s_name, s_default, <<"x">> }
RECURSIVE Concat(_)
Concat(ps) == IF ps = <<>> THEN <<>> ELSE Head(ps) \o Concat(Tail(ps))
Tags == UNION { {Concat(ps) : ps \in [1..n -> TagPieces]} : n \in 0..MaxPieces }

InitTag ==
    /\ wpc = "idle"
    /\ lastIndex = 0
    /\ wkv = NilKV
    /\ wmeta = NilMeta
    /\ werr = FALSE
    /\ chClosed = FALSE
    /\ cready = FALSE
    /\ firstRecv = NoRecv
    /\ lastRecv = NoRecv
    /\ sawClosed = FALSE
    /\ gpc = "idle"
    /\ gmeta = NilMeta
    /\ gres = "none"
    /\ lastObs = 0
    /\ fatal = "none"
    /\ meta = EmptyMap
    /\ storeIdx = 1
    /\ kvStore = [x \in {} |-> NilKV]
    /\ faulty = {}
    /\ loadParent = <<>>
    /\ recType = <<>>
    /\ vals = <<>>
    /\ lookups = <<>>
    /\ failedAt = <<>>
    /\ loadErr = "none"
    /\ lpc = "idle"
    /\ frames = <<>>
    /\ lkv = NilKV
    /\ lgmeta = NilMeta
    /\ seen = <<>>
    /\ tagIn \in Tags
    /\ tagOut = NoTagResult

\* The tag parsing of recursiveLoadStruct, for a field whose consul tag is tagIn:
\* getTagOptions(tag) when the tag is not empty, no options when it is. This is
\* the only call of getTagOptions, which the package does not export.
ParseTag ==
    /\ tagOut = NoTagResult
    /\ tagOut' = FieldTagOptions(Field(<<"F">>, tagIn, "string", <<>>))
    /\ UNCHANGED <<storeIdx, kvStore, meta, wonly, lvars, tagIn>>

NextTag == ParseTag

TagSpec == InitTag /\ [][NextTag]_vars

----------------------------------------------------------------------------
(* Claims about the watcher *)

\* C1: whenever a blocking fetch of the WatchGet loop fails, whatever wait index it
\* used (the sentinel 1 included), the loop closes the delivery channel.
C1_ErrorClosesChannel == werr => chClosed

\* C2: once the loop has closed the channel it does nothing more: no write of the
\* index tracker, no further fetch, no send on the closed channel.
C2_NothingAfterClose ==
    [][chClosed => (wpc' = wpc /\ fatal' # "sendOnClosed")]_vars

\* C3: the indices observed with the entries delivered on the channel never decrease.
C3_DeliveredIndexNonDecreasing ==
    [][lastRecv'.index >= lastRecv.index]_vars

\* C3 witness: two deliveries with a growing index, a Get having written the tracker.
C3_Witness ==
    /\ firstRecv.got
    /\ firstRecv.index < lastRecv.index
    /\ gres = "ok"

\* C4: with a watch started before the writes, no store error, a fair scheduler and
\* a consumer that keeps receiving, the first entry received is present, and the
\* entry of the last write is eventually delivered.
C4_LastWriteDelivered ==
    /\ [](firstRecv.got => ~firstRecv.kv.nil)
    /\ \A i \in 1..MaxIndex, v \in Values :
          (KVGet(WatchKey).kv = KVPair(v, i))
            ~> (lastRecv.kv = KVPair(v, i) \/ KVGet(WatchKey).kv # KVPair(v, i))

\* C9: when no write of the tracker is pending, an index held for the key is the
\* response index of the most recent successful observation, and is never nil.
C9_TrackerIsLatestObservation ==
    (gpc = "idle" /\ wpc # "store" /\ WatchKey \in DOMAIN meta)
        => (~meta[WatchKey].nil /\ meta[WatchKey].LastIndex = lastObs)

\* C10: a poll waits on the recorded index, or on 1 when there is none; a poll on 1
\* that finds no entry delivers nothing, leaves the tracker alone and polls again;
\* any other successful poll stores its response index, then delivers its entry,
\* and the next poll waits for the consumer to have received it.
C10_PollStoreDeliver ==
    [][/\ (wpc = "read" /\ wpc' = "fetch")
            => lastIndex' = IF WatchKey \in DOMAIN meta
                            THEN meta[WatchKey].LastIndex ELSE 1
       /\ (wpc = "fetch" /\ wpc' # "fetch" /\ ~werr' /\ lastIndex = 1 /\ wkv'.nil)
            => (wpc' = "read" /\ meta' = meta /\ lastRecv' = lastRecv /\ ~chClosed')
       /\ (wpc = "fetch" /\ wpc' # "fetch" /\ ~werr' /\ ~(lastIndex = 1 /\ wkv'.nil))
            => (wpc' = "store" /\ meta' = meta /\ lastRecv' = lastRecv)
       /\ (wpc = "store" /\ wpc' # "store" /\ ~werr)
            => (wpc' = "send" /\ meta'[WatchKey] = wmeta /\ lastRecv' = lastRecv)
       /\ (wpc = "send" /\ ~werr)
            => \/ (wpc' = "send" /\ lastRecv' = lastRecv)
               \/ (wpc' = "read" /\ cready /\ ~cready'
                     /\ lastRecv' = Recv(wkv, wmeta.LastIndex))
      ]_vars

\* C10 witness: an entry has been delivered and the next poll waits on its index.
C10_Witness ==
    /\ lastRecv.got
    /\ wpc = "fetch"
    /\ lastIndex = lastRecv.index
    /\ lastIndex # 1

----------------------------------------------------------------------------
(* Claims about LoadStruct and the tag parser *)

\* The leaves of the record type loaded into, in resolution order.
Leaves == ExpectedLeaves(loadParent, recType, <<>>, 1)

ScalarKinds == {"string", "int", "float32", "float64"}

\* What the store holds at a path now, as an answer to a lookup.
Answer(path) ==
    IF path \in faulty THEN [kv |-> NilKV, err |-> "store"]
    ELSE IF path \in DOMAIN kvStore THEN [kv |-> kvStore[path], err |-> "none"]
    ELSE [kv |-> NilKV, err |-> "notfound"]

\* Every lookup is answered with what the store holds at its path at that moment.
LookupsSeeTheStore ==
    (lpc = "get" /\ lpc' # "get") =>
        seen' = Append(seen, Answer(lookups[Len(lookups)].path))

\* What a finished LoadStruct did with each answer: a string field holds the
\* payload; an int or float field holds the payload's number, or the load failed
\* at it with a syntax error (always so for an empty payload). The payload is the
\* stored value when the key existed, else the default literal of the tag when
\* there is one, else empty.
AnswersBecomeValues ==
    lpc = "done" =>
      /\ Len(seen) = Len(lookups)
      /\ \A n \in 1..Len(lookups) :
            LET e == lookups[n]
                f == FieldAt(recType, e.at)
                payload == IF ~seen[n].kv.nil THEN seen[n].kv.Value
                           ELSE IF HasOption(f.Tag, s_default) THEN OptionOf(f.Tag, s_default)
                           ELSE <<>>
                assigned == e.at \in DOMAIN vals
            IN (seen[n].err # "store" /\ f.Kind \in ScalarKinds) =>
                 IF f.Kind = "string" THEN assigned /\ vals[e.at] = StringValue(payload)
                 ELSE IF payload = <<>>
                      THEN ~assigned /\ loadErr = "syntax" /\ failedAt = e.at
                 ELSE IF assigned THEN vals[e.at] = normalizeValue(f.Kind, payload).v
                 ELSE /\ loadErr = "syntax"
                      /\ failedAt = e.at
                      /\ normalizeValue(f.Kind, payload).err = "syntax"

\* C5: a scalar leaf whose key is absent is set from the default literal of its tag
\* when there is one, else from an empty payload ("" for a string field, a syntax
\* error for an int or float field); a key that is present gives the stored value,
\* whatever the default. Present and absent are what the store held when the
\* field's lookup was made.
C5_DefaultOrStoredValue == [][LookupsSeeTheStore]_vars /\ []AnswersBecomeValues

\* C5 witness: an absent key with `default:100` gave the int 100, and a present key
\* " 7\f" gave 7 to a field whose tag has the default 2.5.
C5_Witness ==
    /\ lpc = "done"
    /\ \E n, m \in 1..Len(lookups) :
          /\ seen[n].err = "notfound"
          /\ lookups[n].at \in DOMAIN vals
          /\ vals[lookups[n].at] = IntValue(100)
          /\ seen[m].err = "none"
          /\ HasOption(FieldAt(recType, lookups[m].at).Tag, s_default)
          /\ lookups[m].at \in DOMAIN vals
          /\ vals[lookups[m].at] = FloatValue("float64", 7, 0)

\* C6, as claimed: LoadStruct stops at the first failing field and returns its
\* error; the fields before it are loaded, and the failing field and the fields
\* after it are neither fetched nor assigned.
C6_FailingFieldNotFetched ==
    (lpc = "done" /\ loadErr \in {"ErrInvalidTagOptions", "store", "syntax"}) =>
      /\ \A n \in 1..Len(lookups) : Before(lookups[n].at, failedAt)
      /\ \A at \in DOMAIN vals : Before(at, failedAt)
      /\ \A l \in SeqRange(Leaves) : Before(l.at, failedAt) => l.at \in DOMAIN vals

\* C6, amended: LoadStruct stops at the first failing field and returns its error;
\* the fields before it are loaded, the failing field is not assigned, the fields
\* after it are neither fetched nor assigned, and the failing field itself has been
\* fetched (the last lookup) unless the failure is a tag syntax error.
C6_StopsAtFirstFailure ==
    lpc = "done" =>
      /\ \A n \in 1..Len(lookups) :
            lookups[n].path \in faulty => (loadErr = "store" /\ failedAt = lookups[n].at)
      /\ loadErr # "none" =>
            /\ \A n \in 1..Len(lookups) :
                  \/ Before(lookups[n].at, failedAt)
                  \/ (lookups[n].at = failedAt /\ loadErr # "ErrInvalidTagOptions")
            /\ loadErr # "ErrInvalidTagOptions" =>
                  (lookups # <<>> /\ lookups[Len(lookups)].at = failedAt)
            /\ loadErr = "ErrInvalidTagOptions" =>
                  NTokens(FieldAt(recType, failedAt).Tag) % 2 = 1
            /\ \A at \in DOMAIN vals : Before(at, failedAt)
            /\ \A l \in SeqRange(Leaves) : Before(l.at, failedAt) => l.at \in DOMAIN vals

\* C6 witness: the second field of a nested record failed its coercion after the
\* first was loaded, and a field follows the nested record.
C6_Witness ==
    /\ lpc = "done"
    /\ loadErr = "syntax"
    /\ failedAt = <<1, 2>>
    /\ <<1, 1>> \in DOMAIN vals
    /\ Len(recType) = 2
    /\ recType[2].Kind \in ScalarKinds

\* C7: a successful LoadStruct looks up exactly the scalar leaves, depth first in
\* declaration order, each at parent/seg1/.../segN with seg the name option or the
\* lower-cased field name; nested records and time fields cause no lookup and are
\* not assigned.
C7_LookupsAreLeavesInOrder ==
    (lpc = "done" /\ loadErr = "none") =>
      /\ lookups = Leaves
      /\ \A p \in SkippedPositions(recType, <<>>, 1) : p \notin DOMAIN vals

\* C7 witness: a record with a time field and a nested record loaded without error,
\* service/nested/name and the overridden service/nested/d looked up in this order.
C7_Witness ==
    /\ lpc = "done"
    /\ loadErr = "none"
    /\ \E i \in 1..Len(recType) : recType[i].Kind = "time"
    /\ Len(lookups) = 2
    /\ lookups[1].path = s_service \o <<"/", "n", "e", "s", "t", "e", "d", "/", "n", "a", "m", "e">>
    /\ lookups[2].path = s_service \o <<"/", "n", "e", "s", "t", "e", "d", "/", "d">>

\* The key/value pairs of a map.
MapPairs(m) == {<<k, m[k]>> : k \in DOMAIN m}
Recognized == {s_name, s_default}

\* C8: the tag parsing fails with the invalid-tag error exactly when the tag has an
\* odd number of tokens; otherwise its map holds exactly the keys name and default
\* that occur as a pair's key, each with the value of its pair (pairs are taken in
\* order, so the last pair of a key gives the value), pairs of any other key being
\* dropped; and the empty tag gives empty options, not an error.
C8_ParsesPairsLastWins ==
    tagOut # NoTagResult =>
      /\ tagOut.err \in {"none", "ErrInvalidTagOptions"}
      /\ tagIn # <<>> => (tagOut.err = "ErrInvalidTagOptions" <=> NTokens(tagIn) % 2 = 1)
      /\ (tagOut.err = "none" /\ tagIn # <<>>) =>
            /\ DOMAIN tagOut.res = {k \in Recognized : KeyTokens(tagIn, k) # {}}
            /\ \A k \in DOMAIN tagOut.res : tagOut.res[k] = OptionOf(tagIn, k)
      /\ tagIn = <<>> => (tagOut.err = "none" /\ tagOut.res = NoOptions)

\* C8 witness: a tag with the key name twice and the key default parsed without
\* error, the later name pair giving the value.
C8_Witness ==
    /\ tagOut.err = "none"
    /\ Cardinality(KeyTokens(tagIn, s_name)) = 2
    /\ s_name \in DOMAIN tagOut.res
    /\ tagOut.res[s_name] = s_default
    /\ Token(tagIn, 2) # s_default

====
